---- MODULE Spec2Model ----
(***************************************************************************)
(* Retrieval fusion, context budgeting and the run_pipeline orchestration  *)
(* of the context_engineering repository (src/modules/*.py).               *)
(*                                                                         *)
(* Several specifications share the module:                                *)
(*   SpecFusion  HybridRetriever.retrieve applied to bounded backend       *)
(*               outputs, store states and k;                              *)
(*   SpecSelect  ContextEngineer.select_context applied to bounded chunk   *)
(*               sequences and budgets;                                    *)
(*   Spec        one AdvancedRAG.run_pipeline call, statement by           *)
(*               statement, with the audit file of Scratchpad;             *)
(*   SpecGate    repeated AdvancedRAG.evaluate_quality calls on one        *)
(*               context;                                                  *)
(*   SpecGraph   a GraphRetriever from its construction on: ingest_minimal *)
(*               and retrieve on the graph database;                       *)
(*   SpecAnswer  context selection and answer generation over retrieved    *)
(*               lists longer than the prompt's chunk limit;               *)
(*   SpecPad     Scratchpad.log and Scratchpad.clear on the audit file.    *)
(* A variable a specification does not use keeps its initial value there.  *)
(***************************************************************************)
EXTENDS Integers, Sequences, FiniteSets, TLC

VARIABLES
    \* ---- HybridRetriever (SpecFusion)
    faiss_store,      \* self.faiss_store: "loaded" or "none"
    chroma_store,     \* self.chroma_store: "loaded" or "none"
    faiss_search,     \* outcome of max_marginal_relevance_search for this call
    chroma_search,    \* outcome of similarity_search for this call
    k,                \* the k argument of retrieve
    fusion_pc,        \* "call" before retrieve ran, "done" after
    fusion_result,    \* what retrieve did: the list it returned, or raised
    \* ---- ContextEngineer (SpecSelect)
    chunks,           \* the chunks argument of select_context
    max_tokens,       \* the max_tokens argument of select_context
    select_pc,        \* "call" before select_context ran, "done" after
    selection,        \* the dict select_context returned
    \* ---- GraphRetriever, Scratchpad and one run_pipeline call (Spec)
    driver,           \* GraphRetriever.driver: "none", or a driver object that
                      \* verified its connection ("connected") or did not
                      \* ("unverified")
    file,             \* the scratchpad file: valid JSON list, or unreadable
    now,              \* the last reading of datetime.now()
    pc,               \* the statement of run_pipeline to run next
    error,            \* the exception that left run_pipeline, "none" if none
    query,            \* argument query, a sequence of words
    mode,             \* argument mode
    role,             \* argument role
    retrieved_docs,   \* local retrieved_docs
    graph_context,    \* local graph_context
    tools_used,       \* local tools_used
    invoked,          \* the retrievers called so far, in call order
    context_views,    \* locals raw_tokens, raw_context_text, prepared_context_text
    quality,          \* local quality
    llm_call,         \* what self.llm.invoke did in this call
    llm_outputs,      \* local llm_outputs
    response,         \* the returned dict, <<>> while there is none
    \* ---- evaluate_quality called repeatedly (SpecGate)
    assessments,      \* what the calls made so far returned, in call order
    \* ---- the graph database and GraphRetriever calls (SpecGraph)
    graph,            \* Document nodes, Entity nodes and MENTIONS edges stored
    hash_seed,        \* the string hash seed of the running interpreter
    graph_result,     \* what the last ingest_minimal or retrieve call did
    \* ---- Scratchpad calls (SpecPad)
    logged,           \* entries whose log call returned since the last clear
    load_result,      \* what the last load(limit) call returned, and from what
    \* ---- two sessions logging to one file (SpecSessions)
    sessions,         \* per session: its position in log() and its locals
    \* ---- ingest_minimal statement by statement (SpecIngest)
    ingest_run        \* the running ingest_minimal call and what a retrieve saw

fusionVars == <<faiss_store, chroma_store, faiss_search, chroma_search, k,
                fusion_pc, fusion_result>>

selectVars == <<chunks, max_tokens, select_pc, selection>>

pipeVars == <<driver, file, now, pc, error, query, mode, role, retrieved_docs,
              graph_context, tools_used, invoked, context_views, quality,
              llm_call, llm_outputs, response>>

otherVars == <<assessments, graph, hash_seed, graph_result, logged, load_result,
               sessions, ingest_run>>

vars == <<fusionVars, selectVars, pipeVars, otherVars>>

-----------------------------------------------------------------------------
(* Bounds of the model *)

\* longest list a FAISS search returns in the model
MaxFaiss == 3
\* longest list a Chroma search returns in the model
MaxChroma == 2
\* largest k handed to HybridRetriever.retrieve in SpecFusion
MaxK == 3
\* longest chunk list handed to select_context in SpecSelect
MaxChunks == 3
\* largest reading of the clock in Spec
MaxClock == 1
\* number of evaluate_quality calls made on one context in SpecGate
MaxCalls == 2
\* longest chunk list handed to ingest_minimal in SpecGraph
MaxIngest == 2
\* most chunks within the budget that retrieval returned in SpecAnswer
MaxRetrieved == 6
\* most entries the scratchpad file holds in SpecPad
MaxPad == 3

-----------------------------------------------------------------------------
(* Python helpers *)

\* dict.get(key, default)
Get(d, key, default) == IF key \in DOMAIN d THEN d[key] ELSE default

Min(a, b) == IF a <= b THEN a ELSE b

\* seq[:n] for n >= 0
Take(seq, n) == SubSeq(seq, 1, Min(n, Len(seq)))

\* All sequences over S of length at most n
SeqUpTo(S, n) == UNION {[1..m -> S] : m \in 0..n}

-----------------------------------------------------------------------------
(* Documents held by the vector stores *)

\* Chunk ids found in document metadata (Scenario B of the design uses 1..4)
DocIds == {"1", "2", "3", "4"}

\* Page contents of documents stored without an id
Contents == {"x", "y"}

\* hash(page_content): many-to-one, the two contents of the model collide
Hash(content) == IF content \in {"x", "y"} THEN "h1" ELSE "h2"

\* Document(page_content=chunk["text"], metadata=chunk) of update_vector_stores
DocOfChunk(chunk) == [page_content |-> chunk.text, metadata |-> chunk]

\* The chunk with the given id, as far as retrieve reads it
FusionChunk(id) == [id |-> id, text |-> id]

\* Document whose metadata has no "id" key
DocNoId(content) == [page_content |-> content, metadata |-> [page |-> "1"]]

FusionDocs == {DocOfChunk(FusionChunk(id)) : id \in DocIds} \cup {DocNoId(c) : c \in Contents}

\* What a call does: raise, or return a list of documents
Raised == [raises |-> TRUE, docs |-> <<>>]
Returned(docs) == [raises |-> FALSE, docs |-> docs]

-----------------------------------------------------------------------------
(* HybridRetriever.retrieve, src/modules/retrieval_modes.py:56-83 *)

\* line 79: doc.metadata.get("id", hash(doc.page_content))
doc_id(doc) ==
    IF "id" \in DOMAIN doc.metadata
    THEN <<"id", doc.metadata.id>>
    ELSE <<"hash", Hash(doc.page_content)>>

BackendDocs_NoCatch(store, search) ==
    IF store = "none" THEN Returned(<<>>) ELSE search

\* lines 60-65 and 68-73: one backend's part of results. A store that is
\* None is skipped by the if; inside the try a search that raises is printed
\* and nothing is extended
BackendDocs(store, search) ==
    IF store = "none" THEN Returned(<<>>)
    ELSE IF search.raises THEN Returned(<<>>)
    ELSE Returned(search.docs)

MergeUnique_NoDedup(results, unique_docs) == unique_docs \o results

\* lines 76-81: the insertion-ordered dict unique_docs, kept as the list of
\* its values; a document whose doc_id is already a key is not stored
RECURSIVE MergeUnique(_, _)
MergeUnique(results, unique_docs) ==
    IF results = <<>> THEN unique_docs
    ELSE LET doc == Head(results)
             seen == \E i \in DOMAIN unique_docs : doc_id(unique_docs[i]) = doc_id(doc)
         IN MergeUnique(Tail(results),
                        IF seen THEN unique_docs ELSE Append(unique_docs, doc))

HybridRetriever_retrieve_ChromaFirst(fstore, fsearch, cstore, csearch, kk) ==
    LET f == BackendDocs(fstore, fsearch)
        c == BackendDocs(cstore, csearch)
    IN IF f.raises \/ c.raises THEN Raised
       ELSE Returned(Take(MergeUnique(c.docs \o f.docs, <<>>), kk))

\* lines 57-83: FAISS first, then Chroma, merge, then list(...)[:k]. An
\* exception no except clause catches leaves retrieve
HybridRetriever_retrieve(fstore, fsearch, cstore, csearch, kk) ==
    LET f == BackendDocs(fstore, fsearch)
        c == BackendDocs(cstore, csearch)
    IN IF f.raises \/ c.raises THEN Raised
       ELSE Returned(Take(MergeUnique(f.docs \o c.docs, <<>>), kk))

-----------------------------------------------------------------------------
(* ContextEngineer.select_context, src/modules/context_engineering.py:65-87 *)

\* the loop with the budget test made after the chunk was taken
RECURSIVE SelectLoop_TestAfter(_, _, _, _, _)
SelectLoop_TestAfter(cs, i, selected, current_tokens, maxTokens) ==
    IF i > Len(cs) \/ current_tokens > maxTokens
    THEN [selected |-> selected, current_tokens |-> current_tokens]
    ELSE SelectLoop_TestAfter(cs, i + 1, Append(selected, cs[i]),
                              current_tokens + Get(cs[i], "tokens_estimate", 0), maxTokens)

\* the loop with continue in the place of break
RECURSIVE SelectLoop_Continue(_, _, _, _, _)
SelectLoop_Continue(cs, i, selected, current_tokens, maxTokens) ==
    IF i > Len(cs) THEN [selected |-> selected, current_tokens |-> current_tokens]
    ELSE LET tokens == Get(cs[i], "tokens_estimate", 0)
         IN IF current_tokens + tokens > maxTokens
            THEN SelectLoop_Continue(cs, i + 1, selected, current_tokens, maxTokens)
            ELSE SelectLoop_Continue(cs, i + 1, Append(selected, cs[i]),
                                     current_tokens + tokens, maxTokens)

\* lines 75-81: the for loop over chunks from position i, with the break
RECURSIVE SelectLoop(_, _, _, _, _)
SelectLoop(cs, i, selected, current_tokens, maxTokens) ==
    IF i > Len(cs) THEN [selected |-> selected, current_tokens |-> current_tokens]
    ELSE LET tokens == Get(cs[i], "tokens_estimate", 0)
         IN IF current_tokens + tokens > maxTokens
            THEN [selected |-> selected, current_tokens |-> current_tokens]
            ELSE SelectLoop(cs, i + 1, Append(selected, cs[i]),
                            current_tokens + tokens, maxTokens)

\* lines 69-70 and 83-87
select_context(cs, maxTokens) ==
    LET out == SelectLoop(cs, 1, <<>>, 0, maxTokens)
    IN [selected_chunks |-> out.selected,
        total_tokens    |-> out.current_tokens,
        dropped_count   |-> Len(cs) - Len(out.selected)]

-----------------------------------------------------------------------------
(* Text is a sequence of words; TokenAnalyzer.count_tokens,                  *)
(* src/modules/token_analysis.py:16-17, counts one token per word            *)

count_tokens(text) == Len(text)

\* sep.join(parts)
RECURSIVE Join(_, _)
Join(parts, sep) ==
    IF parts = <<>> THEN <<>>
    ELSE IF Len(parts) = 1 THEN parts[1]
    ELSE parts[1] \o sep \o Join(Tail(parts), sep)

\* sum(f(x) for x in seq), for the token sums of run_pipeline
RECURSIVE SumTokenEstimates(_)
SumTokenEstimates(docs) ==
    IF docs = <<>> THEN 0
    ELSE Get(Head(docs), "tokens_estimate", 0) + SumTokenEstimates(Tail(docs))

-----------------------------------------------------------------------------
(* config.py *)

\* CONTEXT_QUALITY_THRESHOLDS, in hundredths
THRESHOLD_EXCELLENT == 80
THRESHOLD_GOOD == 65
THRESHOLD_FAIR == 50
\* RETRIEVAL_DEPTHS["MEDIUM"]
RETRIEVAL_DEPTH_MEDIUM == 10
LLM_MODEL_NAME == "gpt-4o"

-----------------------------------------------------------------------------
(* RetrievalMode, src/modules/retrieval_modes.py:14-17 *)

TRADITIONAL == "Traditional (FAISS+Chroma)"
KNOWLEDGE_GRAPH == "Knowledge Graph (Neo4j)"
HYBRID == "Hybrid (Vector + Graph)"

-----------------------------------------------------------------------------
(* RolePrompts.get_prompt, src/modules/role_prompts.py:32-41 *)

NORMAL_CHATBOT == <<"You", "are", "a", "helpful", "assistant.">>
CODING_AGENT == <<"You", "are", "an", "expert", "Software", "Engineer.">>
DOCUMENT_ANALYSER == <<"You", "are", "a", "Document", "Analyst.">>

get_prompt(r) ==
    IF r = "Normal Chatbot" THEN NORMAL_CHATBOT
    ELSE IF r = "Coding Agent" THEN CODING_AGENT
    ELSE IF r = "Document Analyser" THEN DOCUMENT_ANALYSER
    ELSE NORMAL_CHATBOT

-----------------------------------------------------------------------------
(* Scratchpad, src/modules/scratchpad_db.py *)

\* The file holding a JSON list of entries, and a file json.load cannot read
ValidFile(entries) == [valid |-> TRUE, entries |-> entries]
UnreadableFile == [valid |-> FALSE, entries |-> <<>>]

\* lines 20-25: load() returns [] when reading or parsing raises
Scratchpad_load(f) == IF f.valid THEN f.entries ELSE <<>>

\* lines 49-56: the entry of log()
LogEntry(timestamp, q, step, message, metadata) ==
    [timestamp |-> timestamp, source |-> "System", query |-> q, step |-> step,
     content |-> message, metadata |-> metadata]

\* lines 48 and 57-58: log() when _write_entries succeeds
Scratchpad_log(f, entry) == ValidFile(Append(Scratchpad_load(f), entry))

\* data[start:] of a Python list, start negative or not
SliceFrom(data, start) ==
    LET first == IF start < 0 THEN (IF Len(data) + start < 0 THEN 0 ELSE Len(data) + start)
                 ELSE Min(start, Len(data))
    IN SubSeq(data, first + 1, Len(data))

\* Scratchpad.load(limit) of context_engineering.py:20-26, on the same file:
\* data[-limit:], and [] when reading or parsing raises
Scratchpad_load_limit(f, limit) ==
    IF f.valid THEN SliceFrom(f.entries, 0 - limit) ELSE <<>>

\* lines 27-29: what the file can be after open(path, "w") or json.dump
\* raised: untouched, or truncated in the middle of the write
FailedWrite(f) == {f, UnreadableFile}

-----------------------------------------------------------------------------
(* GraphRetriever.retrieve, src/modules/retrieval_modes.py:138-168 *)

GraphRaised == [raises |-> TRUE, value |-> [nodes |-> <<>>]]
GraphReturned(value) == [raises |-> FALSE, value |-> value]

\* lines 161-166: the bundle accumulated from the records of the session
RECURSIVE Accumulate(_, _)
Accumulate(records, bundle) ==
    IF records = <<>> THEN bundle
    ELSE LET rec == Head(records)
         IN Accumulate(Tail(records),
               [nodes |-> bundle.nodes \o <<rec.e, rec.d>>,
                edges |-> bundle.edges,
                supporting_texts |-> Append(bundle.supporting_texts,
                    <<"Document", rec.d.filename, "mentions", rec.e.name>>)])

\* lines 142-168; session is what the queries of the with block did: raised,
\* or returned records. No except clause surrounds the session
GraphRetriever_retrieve(drv, session) ==
    IF drv = "none"
    THEN GraphReturned([nodes |-> <<>>, edges |-> <<>>, text |-> "Graph DB not connected."])
    ELSE IF session.raises THEN GraphRaised
    ELSE GraphReturned(Accumulate(session.records,
                                  [nodes |-> <<>>, edges |-> <<>>, supporting_texts |-> <<>>]))

-----------------------------------------------------------------------------
(* GraphRetriever construction and ingest_minimal,                           *)
(* src/modules/retrieval_modes.py:89-136. A token of text.split() is a       *)
(* sequence of characters                                                    *)

\* lines 90-98: self.driver is assigned before verify_connectivity() runs, and
\* the except clause does not reset it
GraphRetriever_init(outcome) ==
    IF outcome = "driver_raises" THEN "none"
    ELSE IF outcome = "verify_raises" THEN "unverified"
    ELSE "connected"

ConstructionOutcomes == {"driver_raises", "verify_raises", "verified"}

\* str.isupper() of one character, for the characters of the model
isupper(c) == c \in {"A", "B", "C", "D", "E", "F", "G", "I"}

\* w.strip(chars)
RECURSIVE lstrip(_, _)
lstrip(w, chars) ==
    IF w # <<>> /\ Head(w) \in chars THEN lstrip(Tail(w), chars) ELSE w

RECURSIVE rstrip(_, _)
rstrip(w, chars) ==
    IF w # <<>> /\ w[Len(w)] \in chars THEN rstrip(SubSeq(w, 1, Len(w) - 1), chars) ELSE w

strip(w, chars) == rstrip(lstrip(w, chars), chars)

Reverse(seq) == [i \in 1..Len(seq) |-> seq[Len(seq) + 1 - i]]

\* The entity names of the model, in one fixed order
NameOrder ==
    << <<"A", "l", "f", "a">>, <<"B", "e", "t", "a">>, <<"C", "a", "t">>,
       <<"D", "e", "l", "t", "a">>, <<"E", "c", "h", "o">>, <<"F", "o", "x", "t">>,
       <<"G", "o", "l", "f">> >>

\* list(words) of a set of strings: the iteration order of a set depends on
\* the hash seed of the interpreter; seed 0 and seed 1 give opposite orders
SetOrder(seed, words) ==
    SelectSeq(IF seed = 0 THEN NameOrder ELSE Reverse(NameOrder), LAMBDA n : n \in words)

\* line 128: for word in list(words)[:5]
ENTITY_LIMIT == 5

\* lines 126 and 128: the upper-case and length tests read the token before
\* it is stripped
ExtractEntities(text, seed) ==
    LET words == {strip(text[i], {".", ","}) :
                     i \in {j \in DOMAIN text : isupper(text[j][1]) /\ Len(text[j]) > 3}}
    IN Take(SetOrder(seed, words), ENTITY_LIMIT)

\* lines 115-121: MERGE (d:Document {id}) SET d.filename, d.page
MergeDocument(g, doc) ==
    [g EXCEPT !.documents =
        {d \in g.documents : d.id # doc.id}
        \cup {[id |-> doc.id, filename |-> doc.source_filename, page |-> doc.page]}]

\* lines 129-136: MATCH the document, MERGE the entity, MERGE the edge
MergeMention(g, id, name) ==
    IF \E d \in g.documents : d.id = id
    THEN [g EXCEPT !.entities = @ \cup {name}, !.mentions = @ \cup {<<id, name>>}]
    ELSE g

RECURSIVE MergeMentions(_, _, _)
MergeMentions(g, id, names) ==
    IF names = <<>> THEN g
    ELSE MergeMentions(MergeMention(g, id, Head(names)), id, Tail(names))

\* lines 113-136: the body of the with block, one document after the other
RECURSIVE IngestDocuments(_, _, _)
IngestDocuments(g, documents, seed) ==
    IF documents = <<>> THEN g
    ELSE LET doc == Head(documents)
         IN IngestDocuments(
               MergeMentions(MergeDocument(g, doc), doc.id, ExtractEntities(doc.text, seed)),
               Tail(documents), seed)

\* lines 109-136 when no session.run raises
ingest_minimal(drv, g, documents, seed) ==
    IF drv = "none" THEN g ELSE IngestDocuments(g, documents, seed)

QueryEntities_NoStrip(q) == SelectSeq(q, LAMBDA w : isupper(w[1]))

\* line 146: the candidate entities of a query
QueryEntities(q) ==
    LET kept == SelectSeq(q, LAMBDA w : isupper(w[1]))
    IN [i \in DOMAIN kept |-> strip(kept[i], {".", ","})]

\* The documents in the order the database returns them
DocumentOrder(g) ==
    SelectSeq(<<"1", "2", "3">>, LAMBDA id : \E d \in g.documents : d.id = id)

MatchMentions_NoLimit(g, name, kk) ==
    LET ids == SelectSeq(DocumentOrder(g), LAMBDA id : <<id, name>> \in g.mentions)
    IN [i \in 1..Len(ids) |->
           [e |-> [name |-> name],
            d |-> CHOOSE d \in g.documents : d.id = ids[i]]]

\* lines 152-159: MATCH (e:Entity {name})<-[:MENTIONS]-(d:Document) LIMIT k
MatchMentions(g, name, kk) ==
    LET ids == SelectSeq(DocumentOrder(g), LAMBDA id : <<id, name>> \in g.mentions)
    IN [i \in 1..Min(kk, Len(ids)) |->
           [e |-> [name |-> name],
            d |-> CHOOSE d \in g.documents : d.id = ids[i]]]

\* lines 151-159: the records of the queries of one session, entity by entity
RECURSIVE SessionRecords(_, _, _)
SessionRecords(g, entities, kk) ==
    IF entities = <<>> THEN <<>>
    ELSE MatchMentions(g, Head(entities), kk) \o SessionRecords(g, Tail(entities), kk)

-----------------------------------------------------------------------------
(* AdvancedRAG, src/modules/advanced_rag.py *)

evaluate_quality_StrictThresholds(context, score) ==
    [score |-> score,
     label |-> IF score > THRESHOLD_EXCELLENT THEN "EXCELLENT"
               ELSE IF score > THRESHOLD_GOOD THEN "GOOD"
               ELSE IF score > THRESHOLD_FAIR THEN "FAIR"
               ELSE "POOR"]

\* lines 33-43: score is the draw of random.uniform(0.4, 0.95), in hundredths
evaluate_quality(context, score) ==
    [score |-> score,
     label |-> IF score >= THRESHOLD_EXCELLENT THEN "EXCELLENT"
               ELSE IF score >= THRESHOLD_GOOD THEN "GOOD"
               ELSE IF score >= THRESHOLD_FAIR THEN "FAIR"
               ELSE "POOR"]

\* lines 54-57: one "Source: ... (Page ...)\n text" entry
ContextLine(chunk) ==
    <<"Source:", Get(chunk, "source_filename", "Unknown Source"),
      "(Page", Get(chunk, "page", "N/A"), ")">> \o Get(chunk, "text", <<>>)

format_context_block_NoFixedText(cs, limit) ==
    Join([i \in 1..Len(Take(cs, limit)) |-> ContextLine(cs[i])], <<"\n\n">>)

\* lines 45-59
format_context_block(cs, limit) ==
    IF cs = <<>> THEN <<"No", "supporting", "documents", "were", "retrieved.">>
    ELSE Join([i \in 1..Len(Take(cs, limit)) |-> ContextLine(cs[i])], <<"\n\n">>)

FallbackMarker == "[Fallback Response]"

BuildPrompt_AllChunks(q, selected_docs, r) ==
    LET role_prompt == get_prompt(r)
        context_block == format_context_block(selected_docs, 10)
        user_prompt == <<"Use", "only", "the", "context", "below.", "Context:">>
                       \o context_block \o <<"Question:">> \o q
    IN [role_prompt |-> role_prompt,
        user_prompt |-> user_prompt,
        prompt_tokens |-> count_tokens(role_prompt \o <<"\n\n">> \o user_prompt),
        final_prompt |-> role_prompt \o <<"\n\n">> \o user_prompt]

\* lines 65-76: the prompt and its token count, computed before the call;
\* line 66 calls _format_context_block with its default limit=5 (line 45)
BuildPrompt(q, selected_docs, r) ==
    LET role_prompt == get_prompt(r)
        context_block == format_context_block(selected_docs, 5)
        user_prompt == <<"Use", "only", "the", "context", "below.", "Context:">>
                       \o context_block \o <<"Question:">> \o q
    IN [role_prompt |-> role_prompt,
        user_prompt |-> user_prompt,
        prompt_tokens |-> count_tokens(role_prompt \o <<"\n\n">> \o user_prompt),
        final_prompt |-> role_prompt \o <<"\n\n">> \o user_prompt]

generate_llm_answer_ZeroOnFailure(q, selected_docs, r, llm) ==
    LET p == BuildPrompt(q, selected_docs, r)
        text == IF llm.raises
                THEN <<FallbackMarker, "Unable", "to", "contact", "LLM:", llm.exc>>
                ELSE llm.content
    IN [answer_text |-> text, raw_response |-> text,
        prompt_tokens |-> IF llm.raises THEN 0 ELSE p.prompt_tokens,
        final_prompt |-> p.final_prompt]

\* lines 61-102: llm is what self.llm.invoke did, caught by except Exception
generate_llm_answer(q, selected_docs, r, llm) ==
    LET p == BuildPrompt(q, selected_docs, r)
    IN IF ~llm.raises
       THEN [answer_text |-> llm.content, raw_response |-> llm.content,
             prompt_tokens |-> p.prompt_tokens, final_prompt |-> p.final_prompt]
       ELSE LET fallback_text ==
                    <<FallbackMarker, "Unable", "to", "contact", "LLM:", llm.exc>>
            IN [answer_text |-> fallback_text, raw_response |-> fallback_text,
                prompt_tokens |-> p.prompt_tokens, final_prompt |-> p.final_prompt]

\* select_context(chunks, max_tokens=3000), context_engineering.py:65
DEFAULT_MAX_TOKENS == 3000

\* line 152, in hundredths
CONFIDENCE_HIGH_ABOVE == 70

BuildResponse_HighAtThreshold(m, q, sel, views, qual, outs, tools) ==
    [answer |-> outs.answer_text,
     confidence |-> IF qual.score >= CONFIDENCE_HIGH_ABOVE THEN "High" ELSE "Medium",
     sources |-> [i \in 1..Len(sel.selected_chunks) |->
                     Get(sel.selected_chunks[i], "source_filename", "None")],
     limitations |-> "Generated by a scaffold system. Verify with original docs.",
     llm_output |-> outs.raw_response,
     tools_used |-> tools,
     prompt_views |-> [raw_context |-> views.raw_context_text,
                       prepared_context |-> views.prepared_context_text,
                       final_prompt |-> Get(outs, "final_prompt", <<>>)],
     metrics |-> [quality_score |-> qual.score,
                  retrieval_mode |-> m,
                  token_usage |-> [raw_context_tokens |-> views.raw_tokens,
                                   prepared_context_tokens |-> sel.total_tokens,
                                   prompt_tokens |-> outs.prompt_tokens]]]

\* lines 150-171
BuildResponse(m, q, sel, views, qual, outs, tools) ==
    [answer |-> outs.answer_text,
     confidence |-> IF qual.score > CONFIDENCE_HIGH_ABOVE THEN "High" ELSE "Medium",
     sources |-> [i \in 1..Len(sel.selected_chunks) |->
                     Get(sel.selected_chunks[i], "source_filename", "None")],
     limitations |-> "Generated by a scaffold system. Verify with original docs.",
     llm_output |-> outs.raw_response,
     tools_used |-> tools,
     prompt_views |-> [raw_context |-> views.raw_context_text,
                       prepared_context |-> views.prepared_context_text,
                       final_prompt |-> Get(outs, "final_prompt", <<>>)],
     metrics |-> [quality_score |-> qual.score,
                  retrieval_mode |-> m,
                  token_usage |-> [raw_context_tokens |-> views.raw_tokens,
                                   prepared_context_tokens |-> sel.total_tokens,
                                   prompt_tokens |-> outs.prompt_tokens]]]

-----------------------------------------------------------------------------
(* Idle values *)

\* Values of the variables a specification does not use
IdleStores ==
    /\ faiss_store = "none"
    /\ chroma_store = "none"

IdleFusion ==
    /\ faiss_search = Returned(<<>>)
    /\ chroma_search = Returned(<<>>)
    /\ k = 0
    /\ fusion_pc = "off"
    /\ fusion_result = Returned(<<>>)

NoViews == [raw_tokens |-> 0, raw_context_text |-> <<>>, prepared_context_text |-> <<>>]
NoQuality == [score |-> 0, label |-> "none"]
NoLLMCall == [raises |-> FALSE, exc |-> "", content |-> <<>>]
NoLLMOutputs == [answer_text |-> <<>>, raw_response |-> <<>>, prompt_tokens |-> 0,
                 final_prompt |-> <<>>]

\* The locals of run_pipeline before its first statement
FreshLocals ==
    /\ error = "none"
    /\ retrieved_docs = <<>>
    /\ graph_context = <<>>
    /\ tools_used = <<>>
    /\ invoked = <<>>
    /\ context_views = NoViews
    /\ quality = NoQuality
    /\ llm_call = NoLLMCall
    /\ llm_outputs = NoLLMOutputs
    /\ response = <<>>

IdlePipe ==
    /\ driver = "none"
    /\ file = ValidFile(<<>>)
    /\ now = 0
    /\ pc = "off"
    /\ query = <<>>
    /\ mode = ""
    /\ role = ""
    /\ FreshLocals

EmptyGraph == [documents |-> {}, entities |-> {}, mentions |-> {}]
NoGraphResult == [op |-> "none", drv |-> "none", raises |-> FALSE, changed |-> FALSE,
                  value |-> <<>>, ingested |-> <<>>, repeat |-> FALSE, upserted |-> <<>>,
                  query |-> <<>>, k |-> 0, candidates |-> <<>>]

NoLoadResult == [called |-> FALSE, limit |-> 0, stored |-> ValidFile(<<>>),
                 entries |-> <<>>]
NoIngestRun == [pc |-> "off", todo |-> <<>>, before |-> EmptyGraph, after |-> EmptyGraph,
                seen |-> <<>>]

\* The variables of SpecPad's load, SpecSessions and SpecIngest, unused
IdleLater ==
    /\ load_result = NoLoadResult
    /\ sessions = <<>>
    /\ ingest_run = NoIngestRun

IdleOthers ==
    /\ assessments = <<>>
    /\ graph = EmptyGraph
    /\ hash_seed = 0
    /\ graph_result = NoGraphResult
    /\ logged = <<>>
    /\ IdleLater

NoSelection == [selected_chunks |-> <<>>, total_tokens |-> 0, dropped_count |-> 0]

IdleSelect ==
    /\ chunks = <<>>
    /\ max_tokens = 0
    /\ select_pc = "off"
    /\ selection = NoSelection

-----------------------------------------------------------------------------
(* SpecSelect *)

\* tokens_estimate values of the chunks handed to select_context; process_pdf
\* computes int(len(text) / 4), never negative
TokenEstimates == {0, 100, 150, 300}

\* max_tokens arguments (3000 is the default of select_context)
Budgets == {0, 100, 250, 3000}

ChunkNames == {"a.pdf", "b.pdf"}

\* Chunk dicts: with a tokens_estimate, or without the key
SelectChunks ==
    {[source_filename |-> n, tokens_estimate |-> t] : n \in ChunkNames, t \in TokenEstimates}
    \cup {[source_filename |-> n] : n \in ChunkNames}

InitSelect ==
    /\ IdleOthers
    /\ IdleStores
    /\ IdleFusion
    /\ IdlePipe
    /\ chunks \in SeqUpTo(SelectChunks, MaxChunks)
    /\ max_tokens \in Budgets
    /\ select_pc = "call"
    /\ selection = NoSelection

SelectContext ==
    /\ select_pc = "call"
    /\ selection' = select_context(chunks, max_tokens)
    /\ select_pc' = "done"
    /\ UNCHANGED <<chunks, max_tokens>>
    /\ UNCHANGED <<fusionVars, pipeVars, otherVars>>

NextSelect == SelectContext

SpecSelect == InitSelect /\ [][NextSelect]_vars

-----------------------------------------------------------------------------
(* SpecFusion *)

StoreStates == {"loaded", "none"}

\* Calling a search method on a store that is None raises AttributeError
SearchOutcomes(store, stored, maxLen) ==
    IF store = "none" THEN {Raised}
    ELSE {Raised} \cup {Returned(d) : d \in SeqUpTo(stored, maxLen)}

InitFusion ==
    /\ IdleOthers
    /\ IdleSelect
    /\ IdlePipe
    /\ k \in 0..MaxK
    /\ faiss_store \in StoreStates
    /\ chroma_store \in StoreStates
    \* max_marginal_relevance_search(query, k=k, fetch_k=k*2) and
    \* similarity_search(query, k=k) return at most k documents
    /\ faiss_search \in SearchOutcomes(faiss_store, FusionDocs, Min(k, MaxFaiss))
    /\ chroma_search \in SearchOutcomes(chroma_store, FusionDocs, Min(k, MaxChroma))
    /\ fusion_pc = "call"
    /\ fusion_result = Returned(<<>>)

HybridRetrieve ==
    /\ fusion_pc = "call"
    /\ fusion_result' = HybridRetriever_retrieve(faiss_store, faiss_search,
                                                 chroma_store, chroma_search, k)
    /\ fusion_pc' = "done"
    /\ UNCHANGED <<faiss_store, chroma_store, faiss_search, chroma_search, k>>
    /\ UNCHANGED <<selectVars, pipeVars, otherVars>>

NextFusion == HybridRetrieve

SpecFusion == InitFusion /\ [][NextFusion]_vars

-----------------------------------------------------------------------------
(* Spec: one call of AdvancedRAG.run_pipeline, src/modules/advanced_rag.py   *)
(* lines 104-174, on the objects app.initialize_modules builds               *)

\* The three values of RetrievalMode and a string that is none of them
Modes == {TRADITIONAL, KNOWLEDGE_GRAPH, HYBRID, "Graph"}

Roles == {"Coding Agent", "Architect"}

Queries == {<<"What", "is", "Neo4j?">>}

\* Chunks behind the documents of the vector stores; the second is from an
\* index built with chunks larger than the context budget
ChunkA == [id |-> "1", source_filename |-> "a.pdf", page |-> "1",
           text |-> <<"Neo4j", "stores", "graphs.">>, tokens_estimate |-> 300]
ChunkB == [id |-> "2", source_filename |-> "b.pdf", page |-> "2",
           text |-> <<"FAISS", "indexes", "vectors.">>, tokens_estimate |-> 3200]

PipeDocs == {DocOfChunk(ChunkA), DocOfChunk(ChunkB)}

\* What the queries of one graph session do
MentionRecord == [e |-> [name |-> "Neo4j"],
                  d |-> [id |-> "1", filename |-> "a.pdf", page |-> "1"]]
SessionOutcomes ==
    {[raises |-> TRUE, records |-> <<>>],
     [raises |-> FALSE, records |-> <<>>],
     [raises |-> FALSE, records |-> <<MentionRecord>>]}

\* Draws of random.uniform(0.4, 0.95), in hundredths: the ends of the range
\* and both sides of every threshold
Scores == {40, 49, 50, 64, 65, 70, 71, 79, 80, 95}

\* What self.llm.invoke does
LLMOutcomes ==
    {[raises |-> FALSE, exc |-> "", content |-> <<"Neo4j", "is", "a", "graph", "database.">>],
     [raises |-> TRUE, exc |-> "TimeoutError", content |-> <<>>],
     [raises |-> TRUE, exc |-> "QuotaError", content |-> <<>>]}

\* An entry an earlier query left in the scratchpad file
EarlierEntry == LogEntry(0, <<"Earlier">>, "Completion", [msg |-> "Generated answer.", n |-> 0, label |-> ""], <<>>)

Init ==
    /\ IdleOthers
    /\ IdleFusion
    /\ IdleSelect
    /\ faiss_store \in StoreStates
    /\ chroma_store \in StoreStates
    /\ driver \in {"connected", "none"}
    /\ file = ValidFile(<<EarlierEntry>>)
    /\ now = 0
    /\ pc = "idle"
    /\ query = <<>>
    /\ mode = ""
    /\ role = ""
    /\ FreshLocals

locals == <<retrieved_docs, graph_context, tools_used, invoked, selection,
            context_views, quality, llm_call, llm_outputs, response>>
objects == <<faiss_store, chroma_store, driver>>
args == <<query, mode, role>>
idleVars == <<faiss_search, chroma_search, k, fusion_pc, fusion_result,
              chunks, max_tokens, select_pc, otherVars>>

UsesGraph_OnlyKnowledgeGraph(m) == m = KNOWLEDGE_GRAPH

\* line 116
UsesVector(m) == m = TRADITIONAL \/ m = HYBRID

\* line 121
UsesGraph(m) == m = KNOWLEDGE_GRAPH \/ m = HYBRID

\* The caller enters run_pipeline(query, mode, role)
Begin ==
    /\ pc = "idle"
    /\ query' \in Queries
    /\ mode' \in Modes
    /\ role' \in Roles
    /\ pc' = "log_start"
    /\ UNCHANGED <<objects, file, now, error, locals, idleVars>>

\* self.scratchpad.log(query, step, message, metadata): datetime.now() is read
\* and the file rewritten, or the write raises and the exception leaves
\* run_pipeline, which has no try around its log calls
LogCall(step, message, metadata, next) ==
    \/ \E t \in now..MaxClock :
          /\ now' = t
          /\ file' = Scratchpad_log(file, LogEntry(t, query, step, message, metadata))
          /\ pc' = next
          /\ error' = error
    \/ /\ file' \in FailedWrite(file)
       /\ now' = now
       /\ pc' = "raised"
       /\ error' = "AuditWriteFailure"

Message(msg, n, label) == [msg |-> msg, n |-> n, label |-> label]

\* line 108
LogStart ==
    /\ pc = "log_start"
    /\ LogCall("Start", Message("Started RAG pipeline", 0, mode), <<>>, "vector")
    /\ UNCHANGED <<objects, args, locals, idleVars>>

\* lines 116-117
RetrieveVector ==
    /\ pc = "vector"
    /\ IF UsesVector(mode)
       THEN \E fs \in SearchOutcomes(faiss_store, PipeDocs, Min(RETRIEVAL_DEPTH_MEDIUM, MaxFaiss)),
               cs \in SearchOutcomes(chroma_store, PipeDocs, Min(RETRIEVAL_DEPTH_MEDIUM, MaxChroma)) :
               LET r == HybridRetriever_retrieve(faiss_store, fs, chroma_store, cs,
                                                 RETRIEVAL_DEPTH_MEDIUM)
               IN /\ invoked' = Append(invoked, "vector")
                  /\ IF r.raises
                     THEN /\ pc' = "raised"
                          /\ error' = "VectorStoreError"
                          /\ UNCHANGED retrieved_docs
                     ELSE /\ pc' = "log_vector"
                          /\ retrieved_docs' = r.docs
                          /\ UNCHANGED error
       ELSE /\ pc' = "graph"
            /\ UNCHANGED <<invoked, retrieved_docs, error>>
    /\ UNCHANGED <<objects, args, file, now, graph_context, tools_used, selection,
                   context_views, quality, llm_call, llm_outputs, response, idleVars>>

\* lines 118-119
LogVectorRetrieval ==
    /\ pc = "log_vector"
    /\ LogCall("Retrieval", Message("Retrieved docs via Hybrid.", Len(retrieved_docs), ""),
               <<>>, "graph")
    /\ tools_used' = IF pc' = "raised" THEN tools_used
                     ELSE Append(tools_used, "Vector Store (FAISS + Chroma)")
    /\ UNCHANGED <<objects, args, retrieved_docs, graph_context, invoked, selection,
                   context_views, quality, llm_call, llm_outputs, response, idleVars>>

\* lines 121-122
RetrieveGraph ==
    /\ pc = "graph"
    /\ IF UsesGraph(mode)
       THEN \E session \in SessionOutcomes :
               LET r == GraphRetriever_retrieve(driver, session)
               IN /\ invoked' = Append(invoked, "graph")
                  /\ IF r.raises
                     THEN /\ pc' = "raised"
                          /\ error' = "GraphStoreError"
                          /\ UNCHANGED graph_context
                     ELSE /\ pc' = "log_graph"
                          /\ graph_context' = r.value
                          /\ UNCHANGED error
       ELSE /\ pc' = "select"
            /\ UNCHANGED <<invoked, graph_context, error>>
    /\ UNCHANGED <<objects, args, file, now, retrieved_docs, tools_used, selection,
                   context_views, quality, llm_call, llm_outputs, response, idleVars>>

\* lines 123-124
LogGraphRetrieval ==
    /\ pc = "log_graph"
    /\ LogCall("Retrieval",
               Message("Retrieved graph context with nodes.",
                       Len(Get(graph_context, "nodes", <<>>)), ""),
               <<>>, "select")
    /\ tools_used' = IF pc' = "raised" THEN tools_used
                     ELSE Append(tools_used, "Knowledge Graph (Neo4j)")
    /\ UNCHANGED <<objects, args, retrieved_docs, graph_context, invoked, selection,
                   context_views, quality, llm_call, llm_outputs, response, idleVars>>

\* lines 128-134
SelectStage ==
    /\ pc = "select"
    /\ LET doc_dicts == [i \in 1..Len(retrieved_docs) |-> retrieved_docs[i].metadata]
           sel == select_context(doc_dicts, DEFAULT_MAX_TOKENS)
       IN /\ selection' = sel
          /\ context_views' =
                [raw_tokens |-> SumTokenEstimates(doc_dicts),
                 raw_context_text |-> format_context_block(doc_dicts, 10),
                 prepared_context_text |-> format_context_block(sel.selected_chunks, 10)]
    /\ pc' = "evaluate"
    /\ UNCHANGED <<objects, args, file, now, error, retrieved_docs, graph_context,
                   tools_used, invoked, quality, llm_call, llm_outputs, response, idleVars>>

\* line 137
Evaluate ==
    /\ pc = "evaluate"
    /\ \E score \in Scores : quality' = evaluate_quality(selection.selected_chunks, score)
    /\ pc' = "log_eval"
    /\ UNCHANGED <<objects, args, file, now, error, retrieved_docs, graph_context,
                   tools_used, invoked, selection, context_views, llm_call, llm_outputs,
                   response, idleVars>>

NeedsCorrection_PoorOnly(label) == label = "POOR"

\* line 140
NeedsCorrection(label) == label \in {"FAIR", "POOR"}

\* lines 138-140
LogEvaluation ==
    /\ pc = "log_eval"
    /\ LogCall("Evaluation", Message("Context Quality", quality.score, quality.label), <<>>,
               IF NeedsCorrection(quality.label) THEN "log_correction" ELSE "generate")
    /\ UNCHANGED <<objects, args, locals, idleVars>>

\* line 141
LogCorrection ==
    /\ pc = "log_correction"
    /\ LogCall("Correction", Message("Quality low. Triggering corrective loop", 0, ""),
               <<>>, "generate")
    /\ UNCHANGED <<objects, args, locals, idleVars>>

\* lines 145-171
Generate ==
    /\ pc = "generate"
    /\ \E llm \in LLMOutcomes :
          LET outs == generate_llm_answer(query, selection.selected_chunks, role, llm)
              tools == Append(tools_used, <<"LLM", LLM_MODEL_NAME>>)
          IN /\ llm_call' = llm
             /\ llm_outputs' = outs
             /\ tools_used' = tools
             /\ response' = <<BuildResponse(mode, query, selection, context_views,
                                            quality, outs, tools)>>
    /\ pc' = "log_completion"
    /\ UNCHANGED <<objects, args, file, now, error, retrieved_docs, graph_context,
                   invoked, selection, context_views, quality, idleVars>>

\* lines 173-174
LogCompletion ==
    /\ pc = "log_completion"
    /\ LogCall("Completion", Message("Generated answer.", 0, ""), response, "returned")
    /\ UNCHANGED <<objects, args, locals, idleVars>>

Next ==
    \/ Begin
    \/ LogStart
    \/ RetrieveVector
    \/ LogVectorRetrieval
    \/ RetrieveGraph
    \/ LogGraphRetrieval
    \/ SelectStage
    \/ Evaluate
    \/ LogEvaluation
    \/ LogCorrection
    \/ Generate
    \/ LogCompletion

Spec == Init /\ [][Next]_vars

-----------------------------------------------------------------------------
(* SpecGate: evaluate_quality, src/modules/advanced_rag.py:28-43, called     *)
(* several times with one selected context                                   *)

\* The selected contexts handed to evaluate_quality
GateContexts == {<<>>, <<ChunkA>>, <<ChunkA, [ChunkA EXCEPT !.id = "3", !.page = "2"]>>}

InitGate ==
    /\ IdleStores
    /\ IdleFusion
    /\ chunks = <<>>
    /\ max_tokens = 0
    /\ select_pc = "off"
    /\ \E context \in GateContexts : selection = select_context(context, DEFAULT_MAX_TOKENS)
    /\ driver = "none"
    /\ file = ValidFile(<<>>)
    /\ now = 0
    /\ pc = "off"
    /\ query \in Queries
    /\ mode = ""
    /\ role = ""
    /\ FreshLocals
    /\ IdleOthers

\* One more call of evaluate_quality(selected_docs): line 33 draws a score
EvaluateQuality ==
    /\ Len(assessments) < MaxCalls
    /\ \E score \in Scores :
          assessments' = Append(assessments,
                                evaluate_quality(selection.selected_chunks, score))
    /\ UNCHANGED <<fusionVars, selectVars, pipeVars, graph, hash_seed, graph_result, logged,
                   load_result, sessions, ingest_run>>

NextGate == EvaluateQuality

SpecGate == InitGate /\ [][NextGate]_vars

-----------------------------------------------------------------------------
(* SpecGraph: a GraphRetriever and the graph database it writes and reads,   *)
(* src/modules/retrieval_modes.py:85-168. The database outlives the          *)
(* interpreter; a restart constructs the GraphRetriever again                *)

\* Tokens of chunk texts and queries
W_Alfa == <<"A", "l", "f", "a">>
W_Beta == <<"B", "e", "t", "a">>
W_BetaDot == <<"B", "e", "t", "a", ".">>
W_CatDot == <<"C", "a", "t", ".">>
W_Delta == <<"D", "e", "l", "t", "a">>
W_EchoComma == <<"E", "c", "h", "o", ",">>
W_Foxt == <<"F", "o", "x", "t">>
W_Golf == <<"G", "o", "l", "f">>
W_them == <<"t", "h", "e", "m">>
W_It == <<"I", "t">>

\* Chunks of process_pdf: one naming an entity twice, one with six candidate
\* entities, one with a four-character token that ends a sentence
GraphChunk1 == [id |-> "1", source_filename |-> "a.pdf", page |-> "1",
                text |-> <<W_BetaDot, W_them, W_Beta, W_It>>]
GraphChunk2 == [id |-> "2", source_filename |-> "b.pdf", page |-> "1",
                text |-> <<W_Alfa, W_Beta, W_Delta, W_EchoComma, W_Foxt, W_Golf>>]
GraphChunk3 == [id |-> "3", source_filename |-> "b.pdf", page |-> "2",
                text |-> <<W_CatDot, W_Alfa>>]

GraphChunks == {GraphChunk1, GraphChunk2, GraphChunk3}

GraphQueries == {<<W_them>>, <<W_Beta, W_them>>, <<W_It, W_CatDot>>}

\* Hash seeds of the interpreter (PYTHONHASHSEED is random by default)
Seeds == {0, 1}

\* retrieve(query, k=5), line 138, and the k=5 of advanced_rag.py:122
GRAPH_K == 5

\* The k arguments of retrieve in SpecGraph: the default, and one smaller
\* than the number of documents that mention one entity
RetrieveKs == {1, GRAPH_K}

InitGraph ==
    /\ IdleStores
    /\ IdleFusion
    /\ IdleSelect
    /\ \E outcome \in ConstructionOutcomes : driver = GraphRetriever_init(outcome)
    /\ file = ValidFile(<<>>)
    /\ now = 0
    /\ pc = "off"
    /\ query = <<>>
    /\ mode = ""
    /\ role = ""
    /\ FreshLocals
    /\ assessments = <<>>
    /\ logged = <<>>
    /\ IdleLater
    /\ graph = EmptyGraph
    /\ hash_seed \in Seeds
    /\ graph_result = NoGraphResult

graphIdle == <<fusionVars, selectVars, file, now, pc, error, query, mode, role,
               retrieved_docs, graph_context, tools_used, invoked, context_views,
               quality, llm_call, llm_outputs, response, assessments, logged,
               load_result, sessions, ingest_run>>

\* ingest_minimal(documents), lines 104-136. works tells whether the server
\* answers the session.run calls of this call; when it does not, the first
\* run that fails raises out of ingest_minimal, after the documents before
\* it were written
IngestMinimal ==
    /\ \E documents \in SeqUpTo(GraphChunks, MaxIngest), works \in BOOLEAN :
          LET fails == driver # "none" /\ documents # <<>> /\ ~works
          IN IF fails
             THEN \E n \in 0..(Len(documents) - 1) :
                     /\ graph' = IngestDocuments(graph, Take(documents, n), hash_seed)
                     /\ graph_result' =
                           [op |-> "ingest", drv |-> driver, raises |-> TRUE,
                            changed |-> graph' # graph, value |-> <<>>,
                            ingested |-> <<>>, repeat |-> FALSE, upserted |-> <<>>,
                            query |-> <<>>, k |-> 0, candidates |-> <<>>]
             ELSE /\ graph' = ingest_minimal(driver, graph, documents, hash_seed)
                  /\ graph_result' =
                        [op |-> "ingest", drv |-> driver, raises |-> FALSE,
                         changed |-> graph' # graph, value |-> <<>>,
                         ingested |-> IF driver = "none" THEN graph_result.ingested
                                      ELSE <<documents>>,
                         repeat |-> driver # "none" /\ graph_result.ingested = <<documents>>,
                         upserted |-> IF driver = "none" THEN <<>>
                                      ELSE [i \in DOMAIN documents |->
                                              ExtractEntities(documents[i].text, hash_seed)],
                         query |-> <<>>, k |-> 0, candidates |-> <<>>]
    /\ UNCHANGED <<driver, hash_seed, graphIdle>>

\* retrieve(query, k), lines 138-168, on the graph as it is
GraphRetrieve ==
    /\ \E q \in GraphQueries, kk \in RetrieveKs, works \in BOOLEAN :
          LET entities == QueryEntities(q)
              fails == driver # "none" /\ entities # <<>> /\ ~works
              session == IF fails THEN [raises |-> TRUE, records |-> <<>>]
                         ELSE [raises |-> FALSE,
                               records |-> SessionRecords(graph, entities, kk)]
              r == GraphRetriever_retrieve(driver, session)
          IN graph_result' =
                [graph_result EXCEPT !.op = "retrieve", !.drv = driver,
                                     !.raises = r.raises, !.changed = FALSE,
                                     !.value = IF r.raises THEN <<>> ELSE r.value,
                                     !.repeat = FALSE, !.upserted = <<>>,
                                     !.query = q, !.k = kk,
                                     !.candidates = IF driver = "none" THEN <<>>
                                                    ELSE entities]
    /\ UNCHANGED <<driver, graph, hash_seed, graphIdle>>

\* The application is started again: a new interpreter with its own hash
\* seed constructs a new GraphRetriever; the database keeps its content
Restart ==
    /\ hash_seed' \in Seeds
    /\ \E outcome \in ConstructionOutcomes : driver' = GraphRetriever_init(outcome)
    /\ graph_result' = [graph_result EXCEPT !.op = "restart", !.drv = driver',
                                            !.raises = FALSE, !.changed = FALSE,
                                            !.value = <<>>, !.repeat = FALSE,
                                            !.upserted = <<>>, !.query = <<>>,
                                            !.k = 0, !.candidates = <<>>]
    /\ UNCHANGED <<graph, graphIdle>>

NextGraph ==
    \/ IngestMinimal
    \/ GraphRetrieve
    \/ Restart

SpecGraph == InitGraph /\ [][NextGraph]_vars

-----------------------------------------------------------------------------
(* SpecAnswer: run_pipeline from line 126 on, src/modules/advanced_rag.py,   *)
(* in a Traditional call whose retrieval returned up to MaxRetrieved chunks  *)
(* of 300 tokens, with or without one chunk larger than the budget           *)

ChunkMarkers == <<"t1", "t2", "t3", "t4", "t5", "t6", "t7", "t8", "t9", "t10">>
ChunkFiles == <<"f1.pdf", "f2.pdf", "f3.pdf", "f4.pdf", "f5.pdf", "f6.pdf", "f7.pdf",
                "f8.pdf", "f9.pdf", "f10.pdf">>

\* The i-th chunk of a document: CHUNK_SIZE 1200 characters, 300 tokens
SmallChunk(i) == [id |-> ChunkMarkers[i], source_filename |-> ChunkFiles[i], page |-> "1",
                  text |-> <<ChunkMarkers[i]>>, tokens_estimate |-> 300]

InsertAt(seq, p, x) == SubSeq(seq, 1, p - 1) \o <<x>> \o SubSeq(seq, p, Len(seq))

\* What hybrid_retriever.retrieve returned: the first n small chunks, alone
\* or with the oversized chunk at some position
AnswerRetrievals ==
    LET small(n) == [i \in 1..n |-> DocOfChunk(SmallChunk(i))]
    IN {small(n) : n \in 0..MaxRetrieved}
       \cup UNION {{InsertAt(small(n), p, DocOfChunk(ChunkB)) : p \in 1..(n + 1)} :
                      n \in 0..MaxRetrieved}

InitAnswer ==
    /\ IdleOthers
    /\ IdleFusion
    /\ IdleSelect
    /\ faiss_store = "loaded"
    /\ chroma_store = "loaded"
    /\ driver = "none"
    /\ query \in Queries
    /\ mode = TRADITIONAL
    /\ role \in Roles
    /\ retrieved_docs \in {d \in AnswerRetrievals : Len(d) <= RETRIEVAL_DEPTH_MEDIUM}
    /\ now = 0
    /\ file = ValidFile(<<EarlierEntry,
                          LogEntry(0, query, "Start",
                                   Message("Started RAG pipeline", 0, mode), <<>>),
                          LogEntry(0, query, "Retrieval",
                                   Message("Retrieved docs via Hybrid.", Len(retrieved_docs), ""),
                                   <<>>)>>)
    /\ pc = "select"
    /\ error = "none"
    /\ graph_context = <<>>
    /\ tools_used = <<"Vector Store (FAISS + Chroma)">>
    /\ invoked = <<"vector">>
    /\ context_views = NoViews
    /\ quality = NoQuality
    /\ llm_call = NoLLMCall
    /\ llm_outputs = NoLLMOutputs
    /\ response = <<>>

NextAnswer ==
    \/ SelectStage
    \/ Evaluate
    \/ LogEvaluation
    \/ LogCorrection
    \/ Generate
    \/ LogCompletion

SpecAnswer == InitAnswer /\ [][NextAnswer]_vars

-----------------------------------------------------------------------------
(* SpecPad: Scratchpad.log and Scratchpad.clear on the file,                 *)
(* src/modules/scratchpad_db.py, from the file _ensure_file created          *)

PadSteps == {"Start", "Completion"}

InitPad ==
    /\ IdleStores
    /\ IdleFusion
    /\ IdleSelect
    /\ IdlePipe
    /\ assessments = <<>>
    /\ graph = EmptyGraph
    /\ hash_seed = 0
    /\ graph_result = NoGraphResult
    /\ logged = <<>>
    /\ load_result = NoLoadResult
    /\ sessions = <<>>
    /\ ingest_run = NoIngestRun

padIdle == <<fusionVars, selectVars, driver, pc, error, query, mode, role,
             retrieved_docs, graph_context, tools_used, invoked, context_views,
             quality, llm_call, llm_outputs, response, assessments, graph,
             hash_seed, graph_result, sessions, ingest_run>>

\* log(query, step, message), lines 44-58: load(), append, _write_entries;
\* the write succeeds, or raises and leaves the file as FailedWrite says
PadLog ==
    /\ Len(logged) < MaxPad
    /\ Len(Scratchpad_load(file)) < MaxPad
    /\ \E q \in Queries, step \in PadSteps, t \in now..MaxClock :
          LET entry == LogEntry(t, q, step, Message("message", 0, ""), <<>>)
          IN \/ /\ file' = Scratchpad_log(file, entry)
                /\ logged' = Append(logged, entry)
                /\ now' = t
             \/ /\ file' \in FailedWrite(file)
                /\ logged' = logged
                /\ now' = t
    /\ UNCHANGED <<load_result, padIdle>>

\* clear(), lines 41-42: _write_entries([])
PadClear ==
    /\ \/ /\ file' = ValidFile(<<>>)
          /\ logged' = <<>>
       \/ /\ file' \in FailedWrite(file)
          /\ logged' = logged
    /\ UNCHANGED <<now, load_result, padIdle>>

\* The limit arguments of load: 50 is the default
LoadLimits == {0, 1, 2, 50}

\* load(limit) of context_engineering.Scratchpad, which reads the same file
PadLoad ==
    /\ \E limit \in LoadLimits :
          load_result' = [called |-> TRUE, limit |-> limit, stored |-> file,
                          entries |-> Scratchpad_load_limit(file, limit)]
    /\ UNCHANGED <<file, now, logged, padIdle>>

NextPad ==
    \/ PadLog
    \/ PadClear
    \/ PadLoad

SpecPad == InitPad /\ [][NextPad]_vars

-----------------------------------------------------------------------------
(* SpecIngest: one ingest_minimal call at a time, session.run by             *)
(* session.run, src/modules/retrieval_modes.py:112-136, while another        *)
(* session of the application calls retrieve. Each session.run is its own    *)
(* auto-commit transaction; the code takes no lock                           *)

\* The session.run calls of one ingest_minimal, in the order of lines 113-136
RECURSIVE Statements(_, _)
Statements(documents, seed) ==
    IF documents = <<>> THEN <<>>
    ELSE LET doc == Head(documents)
             names == ExtractEntities(doc.text, seed)
         IN <<[kind |-> "document", doc |-> doc, name |-> <<>>]>>
            \o [i \in DOMAIN names |-> [kind |-> "mention", doc |-> doc, name |-> names[i]]]
            \o Statements(Tail(documents), seed)

\* One session.run: lines 115-121, or lines 129-136
RunStatement(g, st) ==
    IF st.kind = "document" THEN MergeDocument(g, st.doc)
    ELSE MergeMention(g, st.doc.id, st.name)

\* What retrieve(q) returns on graph g through a connected driver
RetrieveValue(g, q) ==
    GraphRetriever_retrieve("connected",
        [raises |-> FALSE,
         records |-> SessionRecords(g, QueryEntities(q), GRAPH_K)]).value

IngestQueries == {<<W_Alfa, W_Beta>>, <<W_Beta, W_them>>}

InitIngest ==
    /\ IdleStores
    /\ IdleFusion
    /\ IdleSelect
    /\ driver = "connected"
    /\ file = ValidFile(<<>>)
    /\ now = 0
    /\ pc = "off"
    /\ query = <<>>
    /\ mode = ""
    /\ role = ""
    /\ FreshLocals
    /\ assessments = <<>>
    /\ logged = <<>>
    /\ load_result = NoLoadResult
    /\ sessions = <<>>
    /\ graph = EmptyGraph
    /\ hash_seed \in Seeds
    /\ graph_result = NoGraphResult
    /\ ingest_run = [NoIngestRun EXCEPT !.pc = "idle"]

ingestIdle == <<fusionVars, selectVars, pipeVars, assessments, hash_seed, graph_result,
                logged, load_result, sessions>>

\* line 112: ingest_minimal(documents) opens its session
IngestBegin ==
    /\ ingest_run.pc \in {"idle", "done"}
    /\ \E documents \in SeqUpTo(GraphChunks, MaxIngest) :
          ingest_run' = [pc |-> "running",
                         todo |-> Statements(documents, hash_seed),
                         before |-> graph,
                         after |-> IngestDocuments(graph, documents, hash_seed),
                         seen |-> <<>>]
    /\ UNCHANGED <<graph, ingestIdle>>

\* The next session.run of the loop commits
IngestStatement ==
    /\ ingest_run.pc = "running"
    /\ ingest_run.todo # <<>>
    /\ graph' = RunStatement(graph, Head(ingest_run.todo))
    /\ ingest_run' = [ingest_run EXCEPT !.todo = Tail(@)]
    /\ UNCHANGED ingestIdle

\* The loop is over and ingest_minimal returns
IngestEnd ==
    /\ ingest_run.pc = "running"
    /\ ingest_run.todo = <<>>
    /\ ingest_run' = [ingest_run EXCEPT !.pc = "done"]
    /\ UNCHANGED <<graph, ingestIdle>>

\* Another session calls retrieve(q) while ingest_minimal is running
ConcurrentRetrieve ==
    /\ ingest_run.pc = "running"
    /\ ingest_run.seen = <<>>
    /\ \E q \in IngestQueries :
          ingest_run' = [ingest_run EXCEPT
                            !.seen = <<[query |-> q, value |-> RetrieveValue(graph, q)]>>]
    /\ UNCHANGED <<graph, ingestIdle>>

NextIngest ==
    \/ IngestBegin
    \/ IngestStatement
    \/ IngestEnd
    \/ ConcurrentRetrieve

SpecIngest == InitIngest /\ [][NextIngest]_vars

-----------------------------------------------------------------------------
(* SpecSessions: two Scratchpad objects on the same file (app.py:21 builds   *)
(* one per session), each running one log call as the separate file          *)
(* operations its code performs; no lock orders them                         *)

Sessions == {1, 2}

\* The Scratchpad class a session's log call belongs to
PadClasses == {"scratchpad_db", "context_engineering"}

\* The query each session logs
SessionQuery == <<<<"What", "is", "Neo4j?">>, <<"What", "is", "FAISS?">>>>

\* context_engineering.py:32-38: the entry of that class's log(), which has
\* no source field
CE_LogEntry(timestamp, q, step, content, metadata) ==
    [timestamp |-> timestamp, query |-> q, step |-> step, content |-> content,
     metadata |-> metadata]

NoEntry == [timestamp |-> 0 - 1]

\* A log call not yet started: entries is the local list, entry the local dict
IdleSession(cls) == [cls |-> cls, pc |-> "called", entries |-> <<>>, entry |-> NoEntry,
                     read |-> FALSE, stamped |-> FALSE, alone |-> TRUE]

\* Another session is between its read of the file and the end of its write
Busy(i) == \E j \in Sessions \ {i} : sessions[j].read /\ sessions[j].pc # "done"

InitSessions ==
    /\ IdleStores
    /\ IdleFusion
    /\ IdleSelect
    /\ driver = "none"
    /\ file \in {ValidFile(<<>>), ValidFile(<<EarlierEntry>>)}
    /\ now = 0
    /\ pc = "off"
    /\ query = <<>>
    /\ mode = ""
    /\ role = ""
    /\ FreshLocals
    /\ assessments = <<>>
    /\ graph = EmptyGraph
    /\ hash_seed = 0
    /\ graph_result = NoGraphResult
    /\ logged = file.entries
    /\ load_result = NoLoadResult
    /\ ingest_run = NoIngestRun
    /\ sessions \in [Sessions -> {IdleSession(cls) : cls \in PadClasses}]

sessionsIdle == <<fusionVars, selectVars, driver, pc, error, query, mode, role,
                  retrieved_docs, graph_context, tools_used, invoked, context_views,
                  quality, llm_call, llm_outputs, response, assessments, graph,
                  hash_seed, graph_result, load_result, ingest_run>>

\* scratchpad_db.py:48 entries = self.load(); context_engineering.py:40-46
\* json.load inside try. scratchpad_db reads before it builds the entry,
\* context_engineering after.
SessionRead ==
    /\ \E i \in Sessions :
          /\ sessions[i].pc = "called"
          /\ ~sessions[i].read
          /\ sessions[i].cls = "context_engineering" => sessions[i].stamped
          /\ sessions' = [sessions EXCEPT ![i].entries = Scratchpad_load(file),
                                          ![i].read = TRUE,
                                          ![i].alone = ~Busy(i),
                                          ![i].pc = IF sessions[i].stamped THEN "ready"
                                                    ELSE "called"]
    /\ UNCHANGED <<file, now, logged, sessionsIdle>>

\* scratchpad_db.py:49-56 and context_engineering.py:32-38: the entry, with
\* datetime.now()
SessionStamp ==
    /\ \E i \in Sessions, t \in now..MaxClock :
          /\ sessions[i].pc = "called"
          /\ ~sessions[i].stamped
          /\ sessions[i].cls = "scratchpad_db" => sessions[i].read
          /\ sessions' =
                [sessions EXCEPT
                    ![i].entry = IF sessions[i].cls = "scratchpad_db"
                                 THEN LogEntry(t, SessionQuery[i], "Start",
                                               Message("message", 0, ""), <<>>)
                                 ELSE CE_LogEntry(t, SessionQuery[i], "Start",
                                                  Message("message", 0, ""), <<>>),
                    ![i].stamped = TRUE,
                    ![i].pc = IF sessions[i].read THEN "ready" ELSE "called"]
          /\ now' = t
    /\ UNCHANGED <<file, logged, sessionsIdle>>

\* scratchpad_db.py:28 and context_engineering.py:50: open(path, "w")
\* truncates the file; the local list gets the entry first (lines 57 and 48)
SessionOpen ==
    /\ \E i \in Sessions :
          /\ sessions[i].pc = "ready"
          /\ sessions' = [sessions EXCEPT
                             ![i].entries = Append(sessions[i].entries, sessions[i].entry),
                             ![i].pc = "opened"]
    /\ file' = UnreadableFile
    /\ UNCHANGED <<now, logged, sessionsIdle>>

\* scratchpad_db.py:29 and context_engineering.py:51: json.dump(entries, f)
\* and the close of the file; log returns
SessionDump ==
    /\ \E i \in Sessions :
          /\ sessions[i].pc = "opened"
          /\ sessions' = [sessions EXCEPT ![i].pc = "done"]
          /\ file' = ValidFile(sessions[i].entries)
          /\ logged' = Append(logged, sessions[i].entry)
    /\ UNCHANGED <<now, sessionsIdle>>

NextSessions ==
    \/ SessionRead
    \/ SessionStamp
    \/ SessionOpen
    \/ SessionDump

SpecSessions == InitSessions /\ [][NextSessions]_vars

-----------------------------------------------------------------------------
(* Properties of HybridRetriever.retrieve, checked under SpecFusion *)

\* The key the claims give a document: its id, or the hash of its content
\* when it has none
KeyOf(doc) ==
    IF "id" \in DOMAIN doc.metadata
    THEN <<"id", doc.metadata.id>>
    ELSE <<"hash", Hash(doc.page_content)>>

KeysOf(docs) == {KeyOf(docs[i]) : i \in DOMAIN docs}

\* Positions of docs whose key occurs at no earlier position
FirstSeenIdx(docs) ==
    {i \in DOMAIN docs : \A j \in 1..(i - 1) : KeyOf(docs[j]) # KeyOf(docs[i])}

\* The n-th smallest element of a set of positions
NthOf(I, n) == CHOOSE i \in I : Cardinality({j \in I : j < i}) = n - 1

\* docs without every element whose key was seen earlier, order kept
FirstSeen(docs) ==
    [n \in 1..Cardinality(FirstSeenIdx(docs)) |-> docs[NthOf(FirstSeenIdx(docs), n)]]

FaissFailed == faiss_store = "none" \/ faiss_search.raises
ChromaFailed == chroma_store = "none" \/ chroma_search.raises

\* C2: for every k >= 0 and every pair of backend outputs, retrieve returns at
\* most k documents and no two of them share a key (id, or content hash for a
\* document without an id).
C2_AtMostKDistinct ==
    fusion_pc = "done" =>
        /\ ~fusion_result.raises
        /\ Len(fusion_result.docs) <= k
        /\ \A i, j \in DOMAIN fusion_result.docs :
              i # j => KeyOf(fusion_result.docs[i]) # KeyOf(fusion_result.docs[j])

\* C2 witness: both backends answered with more than k documents in all, two
\* of them sharing a content hash, and retrieve returned exactly k >= 2
\* documents, one of them without an id.
C2_Witness ==
    /\ fusion_pc = "done"
    /\ ~FaissFailed /\ ~ChromaFailed
    /\ k = 2
    /\ Len(fusion_result.docs) = 2
    /\ Len(faiss_search.docs) + Len(chroma_search.docs) > 3
    /\ DocNoId("x") \in {faiss_search.docs[i] : i \in DOMAIN faiss_search.docs}
    /\ DocNoId("y") \in {chroma_search.docs[i] : i \in DOMAIN chroma_search.docs}
    /\ \E i \in DOMAIN fusion_result.docs : "id" \notin DOMAIN fusion_result.docs[i].metadata

\* C3: with both backends answering, retrieve returns exactly the first k
\* elements of (FAISS output followed by Chroma output) without the elements
\* whose key was seen earlier in that concatenation; when FAISS alone returns
\* k or more distinct keys, no document known to Chroma only is returned.
C3_FirstKOfMergedOrder ==
    (fusion_pc = "done" /\ ~FaissFailed /\ ~ChromaFailed) =>
        /\ fusion_result = Returned(Take(FirstSeen(faiss_search.docs \o chroma_search.docs), k))
        /\ Cardinality(KeysOf(faiss_search.docs)) >= k =>
              KeysOf(fusion_result.docs) \subseteq KeysOf(faiss_search.docs)

\* C3 witness: Scenario B, FAISS ids [1,2,3], Chroma ids [2,4], k = 3 gives
\* ids [1,2,3].
C3_Witness ==
    /\ fusion_pc = "done"
    /\ faiss_store = "loaded" /\ chroma_store = "loaded"
    /\ faiss_search = Returned(<<DocOfChunk(FusionChunk("1")), DocOfChunk(FusionChunk("2")), DocOfChunk(FusionChunk("3"))>>)
    /\ chroma_search = Returned(<<DocOfChunk(FusionChunk("2")), DocOfChunk(FusionChunk("4"))>>)
    /\ k = 3
    /\ fusion_result = Returned(<<DocOfChunk(FusionChunk("1")), DocOfChunk(FusionChunk("2")), DocOfChunk(FusionChunk("3"))>>)

\* C4: a backend that fails (store not loaded, or its search raising)
\* contributes nothing and never makes retrieve raise: the result is the
\* deduplicated, k-truncated output of the other backend, and the empty list
\* when both fail.
C4_BackendFailureDegrades ==
    fusion_pc = "done" =>
        /\ ~fusion_result.raises
        /\ (FaissFailed /\ ~ChromaFailed) =>
              fusion_result.docs = Take(FirstSeen(chroma_search.docs), k)
        /\ (ChromaFailed /\ ~FaissFailed) =>
              fusion_result.docs = Take(FirstSeen(faiss_search.docs), k)
        /\ (FaissFailed /\ ChromaFailed) => fusion_result.docs = <<>>

\* C4 witness: the FAISS search raised on a loaded store, Chroma returned a
\* list with a repeated key, and retrieve returned Chroma's documents.
C4_Witness ==
    /\ fusion_pc = "done"
    /\ faiss_store = "loaded" /\ faiss_search.raises
    /\ chroma_store = "loaded" /\ ~chroma_search.raises
    /\ Len(chroma_search.docs) = 2
    /\ Cardinality(KeysOf(chroma_search.docs)) = 1
    /\ k >= 1
    /\ fusion_result = Returned(<<chroma_search.docs[1]>>)

-----------------------------------------------------------------------------
(* Properties of ContextEngineer.select_context, checked under SpecSelect *)

\* tokens_estimate of a chunk as select_context reads it
TokensOf(chunk) == IF "tokens_estimate" \in DOMAIN chunk THEN chunk.tokens_estimate ELSE 0

\* Sum of the tokens of the first n chunks
RECURSIVE PrefixTokens(_, _)
PrefixTokens(cs, n) == IF n = 0 THEN 0 ELSE PrefixTokens(cs, n - 1) + TokensOf(cs[n])

\* C5: for every chunk sequence and every max_tokens >= 0, total_tokens <=
\* max_tokens, total_tokens is the sum of tokens_estimate over the selected
\* chunks, and dropped_count = len(chunks) - len(selected_chunks).
C5_BudgetInvariant ==
    select_pc = "done" =>
        /\ selection.total_tokens <= max_tokens
        /\ selection.total_tokens =
              PrefixTokens(selection.selected_chunks, Len(selection.selected_chunks))
        /\ selection.dropped_count = Len(chunks) - Len(selection.selected_chunks)

\* C5 witness: a run that dropped a chunk and kept two whose tokens add up to
\* the budget exactly.
C5_Witness ==
    /\ select_pc = "done"
    /\ max_tokens = 250
    /\ Len(chunks) = 3
    /\ Len(selection.selected_chunks) = 2
    /\ selection.total_tokens = 250
    /\ selection.dropped_count = 1

\* C6: selected_chunks is the longest prefix of the input whose token sum
\* does not exceed max_tokens; after the first chunk that would exceed the
\* budget nothing is selected, even a chunk that would fit on its own.
C6_GreedyStopPrefix ==
    select_pc = "done" =>
        LET fits == {n \in 0..Len(chunks) : PrefixTokens(chunks, n) <= max_tokens}
            longest == CHOOSE n \in fits : \A m \in fits : m <= n
        IN selection.selected_chunks = SubSeq(chunks, 1, longest)

\* C6 witness: Scenario A, three chunks of 100 tokens with max_tokens = 250
\* select the first two, 200 tokens, dropped_count 1.
C6_Witness ==
    /\ select_pc = "done"
    /\ Len(chunks) = 3
    /\ \A i \in 1..3 : TokensOf(chunks[i]) = 100 /\ "tokens_estimate" \in DOMAIN chunks[i]
    /\ max_tokens = 250
    /\ selection.selected_chunks = SubSeq(chunks, 1, 2)
    /\ selection.total_tokens = 200
    /\ selection.dropped_count = 1

-----------------------------------------------------------------------------
(* Properties of run_pipeline, checked under Spec *)

Range(seq) == {seq[i] : i \in DOMAIN seq}

\* The entries of the file that belong to the query of this call, in file
\* order (the filter of render_execution_timeline)
CallEntries == SelectSeq(file.entries, LAMBDA e : e.query = query)

StepsOf(entries) == [i \in DOMAIN entries |-> entries[i].step]

CallEnded == pc \in {"returned", "raised"}

ResponseBuilt == pc \in {"log_completion", "returned"}

ResponseKeys == {"answer", "confidence", "sources", "limitations", "llm_output",
                 "tools_used", "prompt_views", "metrics"}

\* C1: run_pipeline never raises to its caller: for every mode and every
\* combination of backend failures (vector store, graph session, answer
\* generation, audit append) it returns a response holding all of answer,
\* confidence, sources, limitations, llm_output, tools_used, prompt_views and
\* metrics.
C1_NeverRaises ==
    /\ pc # "raised"
    /\ pc = "returned" => (Len(response) = 1 /\ DOMAIN response[1] = ResponseKeys)

\* C7: when the answer-generation call raises, the exception does not leave
\* run_pipeline; llm_output and answer begin with the fallback marker and
\* hold the failure reason, the response is assembled, and prompt_tokens is
\* the token count of the constructed prompt, the value a successful call on
\* the same prompt reports.
C7_GenerationFailureFallsBack ==
    /\ (pc = "raised" /\ llm_call.raises) => error = "AuditWriteFailure"
    /\ (ResponseBuilt /\ llm_call.raises) =>
          /\ Len(response) = 1
          /\ DOMAIN response[1] = ResponseKeys
          /\ Head(response[1].llm_output) = FallbackMarker
          /\ Head(response[1].answer) = FallbackMarker
          /\ llm_call.exc \in Range(response[1].llm_output)
          /\ llm_call.exc \in Range(response[1].answer)
          /\ response[1].metrics.token_usage.prompt_tokens
                = count_tokens(response[1].prompt_views.final_prompt)
          /\ \A ok \in {c \in LLMOutcomes : ~c.raises} :
                response[1].metrics.token_usage.prompt_tokens
                   = generate_llm_answer(query, selection.selected_chunks, role, ok).prompt_tokens

\* C7 witness: the call returned after the LLM raised TimeoutError on a
\* prompt built from a selected chunk.
C7_Witness ==
    /\ pc = "returned"
    /\ llm_call.raises
    /\ llm_call.exc = "TimeoutError"
    /\ Len(selection.selected_chunks) = 1
    /\ Head(response[1].llm_output) = FallbackMarker

\* C8: audit logging is best-effort: when a scratchpad.log call of
\* run_pipeline fails, the pipeline still runs every later stage and
\* returns its response, so no call ends with the audit failure raised.
C8_AuditBestEffort == pc = "raised" => error # "AuditWriteFailure"

\* The steps a whole call appends: Start, one Retrieval per retriever
\* invoked, Evaluation, Correction for a FAIR or POOR label, Completion
ExpectedSteps ==
    <<"Start">> \o [i \in DOMAIN invoked |-> "Retrieval"] \o <<"Evaluation">>
    \o (IF quality.label \in {"FAIR", "POOR"} THEN <<"Correction">> ELSE <<>>)
    \o <<"Completion">>

NonDecreasing(entries) ==
    \A i, j \in DOMAIN entries : i <= j => entries[i].timestamp <= entries[j].timestamp

\* C9: the audit entries of one run_pipeline call are appended in stage
\* order with non-decreasing timestamps: one Start first, one Retrieval per
\* backend invoked, one Evaluation, at most one Correction, one Completion
\* last, appended after answer generation. Stated for the calls in which
\* every audit append succeeded.
C9_AuditTrailOfACall ==
    (CallEnded /\ error # "AuditWriteFailure") =>
        /\ StepsOf(CallEntries) = ExpectedSteps
        /\ NonDecreasing(CallEntries)
        /\ llm_outputs # NoLLMOutputs

\* What holds of the audit trail in the calls that return (not a claim of
\* its own: the part of C9 the code keeps)
ReturnedCallAuditTrail ==
    pc = "returned" =>
        /\ StepsOf(CallEntries) = ExpectedSteps
        /\ NonDecreasing(CallEntries)

ExpectedInvoked(m) ==
    IF m = TRADITIONAL THEN <<"vector">>
    ELSE IF m = KNOWLEDGE_GRAPH THEN <<"graph">>
    ELSE <<"vector", "graph">>

ToolName(retriever) ==
    IF retriever = "vector" THEN "Vector Store (FAISS + Chroma)"
    ELSE "Knowledge Graph (Neo4j)"

\* C10: retrieval is dispatched by mode: Traditional invokes only the vector
\* retriever, KnowledgeGraph only the graph retriever, Hybrid both, vector
\* first; tools_used of the response lists the retrievers invoked, in that
\* order, followed by the LLM entry.
C10_DispatchByMode ==
    mode \in {TRADITIONAL, KNOWLEDGE_GRAPH, HYBRID} =>
        /\ \E n \in 0..Len(ExpectedInvoked(mode)) : invoked = SubSeq(ExpectedInvoked(mode), 1, n)
        /\ pc \in {"select", "evaluate", "log_eval", "log_correction", "generate",
                   "log_completion", "returned"} => invoked = ExpectedInvoked(mode)
        /\ ResponseBuilt =>
              response[1].tools_used
                 = [i \in DOMAIN invoked |-> ToolName(invoked[i])] \o <<<<"LLM", LLM_MODEL_NAME>>>>

\* C10 witness: a Hybrid call returned with the vector store, the graph and
\* the LLM in tools_used, and documents retrieved.
C10_Witness ==
    /\ pc = "returned"
    /\ mode = HYBRID
    /\ invoked = <<"vector", "graph">>
    /\ Len(retrieved_docs) = 2
    /\ Len(response[1].tools_used) = 3

-----------------------------------------------------------------------------
(* The graph result and the assembled context, checked under Spec *)

\* C11: in Hybrid and KnowledgeGraph modes the supporting texts the graph
\* retriever returned are part of the fused evidence: they appear in the raw
\* context, in the context select_context prepared and in the final prompt
\* of the response, so a non-empty graph result changes the assembled context.
C11_GraphOutputInContext ==
    (ResponseBuilt /\ UsesGraph(mode)) =>
        \A i \in DOMAIN Get(graph_context, "supporting_texts", <<>>) :
            LET text == graph_context.supporting_texts[i]
            IN /\ Range(text) \subseteq Range(response[1].prompt_views.raw_context)
               /\ Range(text) \subseteq Range(response[1].prompt_views.prepared_context)
               /\ Range(text) \subseteq Range(response[1].prompt_views.final_prompt)

-----------------------------------------------------------------------------
(* Properties of evaluate_quality, checked under SpecGate *)

\* C12: evaluate_quality always returns a score in [0,1] (0..100 hundredths)
\* and the label the fixed thresholds give it: EXCELLENT iff score >= 0.8,
\* GOOD iff 0.65 <= score < 0.8, FAIR iff 0.5 <= score < 0.65, POOR iff
\* score < 0.5.
C12_LabelMatchesScore ==
    \A i \in DOMAIN assessments :
        LET a == assessments[i]
        IN /\ a.score \in 0..100
           /\ a.label \in {"EXCELLENT", "GOOD", "FAIR", "POOR"}
           /\ a.label = "EXCELLENT" <=> a.score >= 80
           /\ a.label = "GOOD" <=> (65 <= a.score /\ a.score < 80)
           /\ a.label = "FAIR" <=> (50 <= a.score /\ a.score < 65)
           /\ a.label = "POOR" <=> a.score < 50

\* C12 witness: two calls returned, one scored exactly 0.8 and labelled
\* EXCELLENT, one scored 0.5 and labelled FAIR.
C12_Witness ==
    /\ Len(assessments) = 2
    /\ assessments[1] = [score |-> 80, label |-> "EXCELLENT"]
    /\ assessments[2] = [score |-> 50, label |-> "FAIR"]

\* C13: quality evaluation is deterministic: the calls of evaluate_quality
\* made with one (query, context) all return the same score and label, so
\* the Proceed/Correct decision is the same in each.
C13_EvaluationDeterministic ==
    \A i, j \in DOMAIN assessments : assessments[i] = assessments[j]

-----------------------------------------------------------------------------
(* The Correct decision, checked under Spec *)

CorrectionsLogged ==
    Len(SelectSeq(CallEntries, LAMBDA e : e.step = "Correction"))

DecisionTaken == pc \in {"generate", "log_completion", "returned"}

\* In every state: a Correction entry is there only for a FAIR or POOR
\* label; once the call is past the decision there is one iff the label is
\* FAIR or POOR; no retriever was invoked twice; the answer was generated
\* from the selection of the retrieved documents
CorrectionState ==
    /\ CorrectionsLogged <= 1
    /\ CorrectionsLogged = 1 => quality.label \in {"FAIR", "POOR"}
    /\ DecisionTaken => (CorrectionsLogged = 1 <=> quality.label \in {"FAIR", "POOR"})
    /\ \A i, j \in DOMAIN invoked : invoked[i] = invoked[j] => i = j
    /\ ResponseBuilt =>
          /\ llm_outputs = generate_llm_answer(query, selection.selected_chunks, role, llm_call)
          /\ response[1].prompt_views.prepared_context
                = format_context_block(selection.selected_chunks, 10)

\* From the evaluation on, no step retrieves or selects again
NoReRetrieval ==
    pc \in {"log_eval", "log_correction", "generate", "log_completion"} =>
       /\ invoked' = invoked
       /\ retrieved_docs' = retrieved_docs
       /\ graph_context' = graph_context
       /\ selection' = selection

\* C14: the Correct decision is taken exactly when the label is FAIR or POOR:
\* a Correction audit entry is appended iff the label is FAIR or POOR (in the
\* calls whose audit appends succeed), the decision triggers no re-retrieval,
\* so each retriever is invoked at most once per call, and the selected
\* context passed to answer generation is the one that was evaluated.
C14_CorrectIffFairOrPoor == [](CorrectionState) /\ [][NoReRetrieval]_vars

\* C14 witness: a Hybrid call returned with label FAIR, one Correction entry
\* logged and both retrievers invoked once.
C14_Witness ==
    /\ pc = "returned"
    /\ mode = HYBRID
    /\ quality.label = "FAIR"
    /\ CorrectionsLogged = 1
    /\ invoked = <<"vector", "graph">>

-----------------------------------------------------------------------------
(* Properties of GraphRetriever, checked under SpecGraph *)

\* C15: graph ingestion is idempotent: ingest_minimal(chunks) called again
\* with the chunks of the ingestion that completed last, on the graph that
\* ingestion left, changes no Document node, Entity node or MENTIONS edge.
C15_IngestIdempotent ==
    (graph_result.op = "ingest" /\ graph_result.repeat) => ~graph_result.changed

\* What the code keeps of C15: within one interpreter a repeated ingestion
\* changes nothing
SameSeedIdempotent ==
    \A documents \in SeqUpTo(GraphChunks, MaxIngest) :
        LET once == IngestDocuments(graph, documents, hash_seed)
        IN IngestDocuments(once, documents, hash_seed) = once

ConnectFailed(drv) == drv \in {"none", "unverified"}

\* C16: the connection status is fixed at construction and never retried:
\* when connecting failed, every later ingest_minimal changes nothing, every
\* later retrieve returns empty nodes and edges, and neither raises.
C16_DisconnectedIsNoOp ==
    (graph_result.op \in {"ingest", "retrieve"} /\ ConnectFailed(graph_result.drv)) =>
        /\ ~graph_result.raises
        /\ ~graph_result.changed
        /\ graph_result.op = "retrieve" =>
              /\ Get(graph_result.value, "nodes", <<"missing">>) = <<>>
              /\ Get(graph_result.value, "edges", <<"missing">>) = <<>>

\* What the code keeps of C16: with driver None both operations are no-ops
NoDriverIsNoOp ==
    (graph_result.op \in {"ingest", "retrieve"} /\ graph_result.drv = "none") =>
        /\ ~graph_result.raises
        /\ ~graph_result.changed
        /\ graph_result.op = "retrieve" =>
              (graph_result.value.nodes = <<>> /\ graph_result.value.edges = <<>>)

\* C17: for each ingested chunk the entity names upserted are pairwise
\* distinct, at most 5, and each starts with an uppercase letter, is longer
\* than 3 characters and ends with neither '.' nor ','.
C17_EntityNames ==
    graph_result.op = "ingest" =>
        \A c \in DOMAIN graph_result.upserted :
            LET names == graph_result.upserted[c]
            IN /\ Len(names) <= 5
               /\ \A i, j \in DOMAIN names : names[i] = names[j] => i = j
               /\ \A i \in DOMAIN names :
                     /\ isupper(names[i][1])
                     /\ Len(names[i]) > 3
                     /\ names[i][Len(names[i])] \notin {".", ","}

\* What the code keeps of C17: everything but the length of the stored name
EntityNamesButLength ==
    graph_result.op = "ingest" =>
        \A c \in DOMAIN graph_result.upserted :
            LET names == graph_result.upserted[c]
            IN /\ Len(names) <= 5
               /\ \A i, j \in DOMAIN names : names[i] = names[j] => i = j
               /\ \A i \in DOMAIN names :
                     /\ isupper(names[i][1])
                     /\ Len(names[i]) >= 3
                     /\ names[i][Len(names[i])] \notin {".", ","}

-----------------------------------------------------------------------------
(* The two caps of answer generation, checked under SpecAnswer *)

\* The positions of word in text
Positions(text, word) == {i \in DOMAIN text : text[i] = word}

\* C18: two separate caps apply: the prompt sent to answer generation holds
\* the first 5 selected chunks, in selection order, and no later one, however
\* many chunks fit the token budget, while prepared_context_tokens and the
\* sources list cover all selected chunks.
C18_PromptCapAndBudgetCap ==
    ResponseBuilt =>
        LET sel == selection.selected_chunks
            prompt == response[1].prompt_views.final_prompt
        IN /\ \A i \in DOMAIN sel :
                 IF i <= 5
                 THEN Cardinality(Positions(prompt, sel[i].text[1])) = 1
                 ELSE Positions(prompt, sel[i].text[1]) = {}
           /\ \A i, j \in DOMAIN sel :
                 (i < j /\ j <= 5) =>
                    \A a \in Positions(prompt, sel[i].text[1]),
                       b \in Positions(prompt, sel[j].text[1]) : a < b
           /\ llm_outputs.final_prompt = prompt
           /\ response[1].sources = [i \in DOMAIN sel |-> sel[i].source_filename]
           /\ response[1].metrics.token_usage.prepared_context_tokens
                 = SumTokenEstimates(sel)
           /\ SumTokenEstimates(sel) <= DEFAULT_MAX_TOKENS

\* C18 witness: six chunks were selected and all six are in sources, the
\* prompt holds the fifth and not the sixth.
C18_Witness ==
    /\ pc = "returned"
    /\ Len(selection.selected_chunks) = 6
    /\ Len(response[1].sources) = 6
    /\ response[1].metrics.token_usage.prepared_context_tokens = 1800
    /\ Positions(response[1].prompt_views.final_prompt, "t5") # {}
    /\ Positions(response[1].prompt_views.final_prompt, "t6") = {}

-----------------------------------------------------------------------------
(* Malformed chunks in select_context, checked under SpecSelect *)

\* A chunk without the tokens_estimate field
Malformed(chunk) == "tokens_estimate" \notin DOMAIN chunk

\* C19: a malformed chunk (one missing tokens_estimate) is skipped by
\* context selection: it never appears in selected_chunks and it is counted
\* in dropped_count.
C19_MalformedChunkSkipped ==
    select_pc = "done" =>
        /\ \A i \in DOMAIN selection.selected_chunks :
              ~Malformed(selection.selected_chunks[i])
        /\ selection.dropped_count
              >= Cardinality({i \in DOMAIN chunks : Malformed(chunks[i])})

-----------------------------------------------------------------------------
(* The audit store, checked under SpecPad *)

\* C20: the audit store is append-only and ordered: after any sequence of log
\* and clear calls the stored sequence, as load() reads it, is exactly the
\* entries logged since the last clear, in call order; this includes the
\* calls made while the stored file is unreadable or not valid JSON.
C20_AppendOnlyOrdered == Scratchpad_load(file) = logged

\* What the code keeps of C20: a readable file holds entries that were
\* logged since the last clear, in the order of their calls
StoredAreLoggedInOrder ==
    file.valid =>
        \E f \in [DOMAIN file.entries -> DOMAIN logged] :
            /\ \A i, j \in DOMAIN file.entries : i < j => f[i] < f[j]
            /\ \A i \in DOMAIN file.entries : file.entries[i] = logged[f[i]]

-----------------------------------------------------------------------------
(* Ingestion and concurrent reads, checked under SpecIngest *)

\* C21: an ingestion on a store excludes concurrent reads of that store: a
\* retrieve that runs while ingest_minimal runs never observes a partly
\* updated graph, so what it returns is what it would return on the graph
\* before the ingestion or on the graph after it.
C21_IngestExcludesReads ==
    \A i \in DOMAIN ingest_run.seen :
        LET o == ingest_run.seen[i]
        IN o.value \in {RetrieveValue(ingest_run.before, o.query),
                        RetrieveValue(ingest_run.after, o.query)}

\* The statements of ingest_minimal, run one after the other, give the graph
\* IngestDocuments gives
StatementsGiveIngest ==
    (ingest_run.pc = "running" /\ ingest_run.todo = <<>>) => graph = ingest_run.after

-----------------------------------------------------------------------------
(* Unrecognised modes, checked under Spec *)

RecognisedModes == {TRADITIONAL, KNOWLEDGE_GRAPH, HYBRID}

\* C22: a mode outside the three recognised retrieval modes is not silently
\* accepted: run_pipeline never gets to context selection, answer generation
\* or a response for such a mode with no retriever invoked.
C22_UnrecognisedModeRejected ==
    (pc \in {"select", "evaluate", "log_eval", "log_correction", "generate",
             "log_completion", "returned"}
     /\ invoked = <<>>)
        => mode \in RecognisedModes

-----------------------------------------------------------------------------
(* Properties of GraphRetriever.retrieve, checked under SpecGraph *)

\* The uppercase-leading tokens of the query of the last retrieve
UpperTokens == {i \in DOMAIN graph_result.query : isupper(graph_result.query[i][1])}

\* The supporting texts of the last retrieve that name entity n
TextsNaming(n) ==
    {i \in DOMAIN graph_result.value.supporting_texts :
        graph_result.value.supporting_texts[i][4] = n}

\* C23: when connected, retrieve accumulates at most k (Entity, Document)
\* pairs per candidate entity of the query: supporting_texts has at most k
\* times the number of candidates entries, at most k for each occurrence of a
\* candidate, and nodes has exactly twice as many entries as
\* supporting_texts; a query with no uppercase-leading token yields an empty
\* bundle.
C23_AtMostKPerCandidate ==
    (graph_result.op = "retrieve" /\ graph_result.drv # "none" /\ ~graph_result.raises) =>
        LET v == graph_result.value
        IN /\ Len(v.supporting_texts) <= graph_result.k * Cardinality(UpperTokens)
           /\ \A i \in UpperTokens :
                 LET n == strip(graph_result.query[i], {".", ","})
                 IN Cardinality(TextsNaming(n))
                       <= graph_result.k
                          * Cardinality({j \in UpperTokens :
                                           strip(graph_result.query[j], {".", ","}) = n})
           /\ Len(v.nodes) = 2 * Len(v.supporting_texts)
           /\ UpperTokens = {} =>
                 (v.nodes = <<>> /\ v.edges = <<>> /\ v.supporting_texts = <<>>)

\* C23 witness: retrieve with k = 1 returned one pair for an entity that two
\* documents mention.
C23_Witness ==
    /\ graph_result.op = "retrieve"
    /\ graph_result.drv = "connected"
    /\ ~graph_result.raises
    /\ graph_result.k = 1
    /\ graph_result.query = <<W_Beta, W_them>>
    /\ Cardinality({m \in graph.mentions : m[2] = W_Beta}) = 2
    /\ Len(graph_result.value.supporting_texts) = 1
    /\ Len(graph_result.value.nodes) = 2

\* Token t of a chunk gave the stored Entity named strip(t): it passed the
\* tests of ingest_minimal and the MENTIONS edge of that chunk is stored
StoredFrom(t) ==
    /\ isupper(t[1])
    /\ Len(t) > 3
    /\ \E c \in GraphChunks :
          /\ \E i \in DOMAIN c.text : c.text[i] = t
          /\ <<c.id, strip(t, {".", ","})>> \in graph.mentions

\* C24: ingest and query use a consistent entity heuristic: for every token
\* t of the query, if ingest_minimal stored an Entity named n from a chunk
\* whose text contains t, retrieve extracts n as a candidate entity name and,
\* when its session answers, looks the Entity up and returns it.
C24_ConsistentHeuristic ==
    (graph_result.op = "retrieve" /\ graph_result.drv # "none") =>
        \A i \in DOMAIN graph_result.query :
            LET t == graph_result.query[i]
                n == strip(t, {".", ","})
            IN StoredFrom(t) =>
                  /\ \E j \in DOMAIN graph_result.candidates : graph_result.candidates[j] = n
                  /\ ~graph_result.raises =>
                        \E j \in DOMAIN graph_result.value.nodes :
                            graph_result.value.nodes[j] = [name |-> n]

\* C24 witness: the chunk with the token "Cat." was ingested, and retrieve on
\* a query with that token looked up and returned the Entity "Cat".
C24_Witness ==
    /\ graph_result.op = "retrieve"
    /\ graph_result.drv = "connected"
    /\ ~graph_result.raises
    /\ graph_result.query = <<W_It, W_CatDot>>
    /\ StoredFrom(W_CatDot)
    /\ \E j \in DOMAIN graph_result.value.nodes :
          graph_result.value.nodes[j] = [name |-> <<"C", "a", "t">>]

-----------------------------------------------------------------------------
(* Scratchpad.load(limit), checked under SpecPad *)

\* The last m elements of seq, in their order
LastOf(seq, m) == SubSeq(seq, Len(seq) - Min(m, Len(seq)) + 1, Len(seq))

\* C25: load(limit) returns at most limit entries, the most recently logged
\* ones in creation order, for every limit >= 0, limit = 0 included, and
\* returns the empty list when the file cannot be read.
C25_LoadLimit ==
    load_result.called =>
        /\ Len(load_result.entries) <= load_result.limit
        /\ load_result.stored.valid =>
              load_result.entries = LastOf(load_result.stored.entries, load_result.limit)
        /\ ~load_result.stored.valid => load_result.entries = <<>>

\* What the code keeps of C25: every limit of at least 1, and the unreadable
\* file
LoadPositiveLimit ==
    (load_result.called /\ load_result.limit >= 1) =>
        /\ Len(load_result.entries) <= load_result.limit
        /\ load_result.stored.valid =>
              load_result.entries = LastOf(load_result.stored.entries, load_result.limit)
        /\ ~load_result.stored.valid => load_result.entries = <<>>

-----------------------------------------------------------------------------
(* Sources and confidence of the response, checked under Spec *)

NoDocumentsText == <<"No", "supporting", "documents", "were", "retrieved.">>

\* text holds the words of part as one contiguous run
Contains(text, part) ==
    \E i \in 0..(Len(text) - Len(part)) : SubSeq(text, i + 1, i + Len(part)) = part

C27_ConfidenceFromScore ==
    ResponseBuilt =>
        LET r == response[1]
        IN /\ r.confidence \in {"High", "Medium"}
           /\ r.metrics.quality_score = quality.score
           /\ r.confidence = "High" <=> r.metrics.quality_score > 70
           /\ CorrectionsLogged >= 1 => r.confidence = "Medium"
           /\ quality.label \in {"FAIR", "POOR"} => r.confidence = "Medium"
           /\ quality.label = "EXCELLENT" => r.confidence = "High"
           /\ quality.label = "GOOD" =>
                 (r.confidence = "High" <=> quality.score > 70)

\* C27 witness: a call labelled GOOD with score exactly 0.7 returned Medium.
C27_Witness ==
    /\ pc = "returned"
    /\ quality = [score |-> 70, label |-> "GOOD"]
    /\ response[1].confidence = "Medium"

\* The other half of 'GOOD may report either': a GOOD call that returned High
GoodAndHigh ==
    /\ pc = "returned"
    /\ quality = [score |-> 71, label |-> "GOOD"]
    /\ response[1].confidence = "High"

-----------------------------------------------------------------------------
(* Interleaved log calls, checked under SpecSessions *)

BothReturned == \A i \in Sessions : sessions[i].pc = "done"

\* Every entry stored before the calls and every entry a returned log call
\* wrote is in the stored sequence, each at a position of its own
AllLoggedStored ==
    /\ file.valid
    /\ \E f \in [DOMAIN logged -> DOMAIN file.entries] :
          /\ \A i, j \in DOMAIN logged : i # j => f[i] # f[j]
          /\ \A i \in DOMAIN logged : file.entries[f[i]] = logged[i]

\* C28: when two Scratchpad.log calls on the same file interleave their read
\* and write steps, both entries are in the stored sequence afterwards and
\* no previously stored entry is lost.
C28_InterleavedAppendsKept ==
    BothReturned => AllLoggedStored

\* What the code does give: two calls that do not overlap (neither read the
\* file while the other was between its read and the end of its write) keep
\* both entries and the earlier ones.
SequentialAppendsKept ==
    (BothReturned /\ \A i \in Sessions : sessions[i].alone) => AllLoggedStored

SequentialCallsReturned ==
    /\ BothReturned
    /\ \A i \in Sessions : sessions[i].alone
    /\ Len(file.entries) = 3

====
